---------------------------- MODULE Spec2Model ----------------------------
(* Model of functime/evaluation.py: the ACF engine, the Ljung-Box engine,   *)
(* the normality engine and the ranking entry points.                      *)
(*                                                                          *)
(* Numbers.  A float column value is a pair <<num, den>>: den > 0 is the    *)
(* rational num/den in lowest terms, <<0,0>> is a polars null and <<1,0>>   *)
(* is a float NaN.  Float32 rounding is not modelled.  Square roots are     *)
(* kept symbolic: an interval is coef * sqrt(rad) with rad a float value.   *)
(* pl.corr, norm.ppf and normaltest are library calls: the panels carry the *)
(* values they return.  An expression of the form                          *)
(* CHOOSE r \in {e(v) : v \in {d}} : TRUE is e(d) with d evaluated once.    *)
EXTENDS Integers, Sequences, FiniteSets, TLC

VARIABLES call, result

vars == <<call, result>>

(***************************************************************************)
(* Bounds of the model                                                     *)
(***************************************************************************)
MaxLags == 3
MaxLen == 4

(***************************************************************************)
(* Float values                                                            *)
(***************************************************************************)
Null == <<0, 0>>
NaN == <<1, 0>>
Zero == <<0, 1>>
One == <<1, 1>>

IsNull(v) == v = Null
IsNaN(v) == v = NaN
IsNum(v) == v[2] > 0

Abs(i) == IF i < 0 THEN -i ELSE i

RECURSIVE GCD(_, _)
GCD(a, b) == IF b = 0 THEN a ELSE GCD(b, a % b)

\* num/den in lowest terms with a positive denominator (den # 0)
Rat(num, den) ==
    LET n == IF den < 0 THEN -num ELSE num
        d == Abs(den)
    IN  CHOOSE r \in {<<n \div g, d \div g>> : g \in {GCD(Abs(n), d)}} : TRUE

\* Binary float operations: null wins over NaN, NaN over numbers.  The
\* operands are bound once (x, y) before the case analysis.
FAdd(a, b) ==
    CHOOSE r \in {IF IsNull(x) \/ IsNull(y) THEN Null
                  ELSE IF IsNaN(x) \/ IsNaN(y) THEN NaN
                  ELSE Rat(x[1] * y[2] + y[1] * x[2], x[2] * y[2]) :
                  x \in {a}, y \in {b}} : TRUE

FSub(a, b) ==
    CHOOSE r \in {IF IsNull(x) \/ IsNull(y) THEN Null
                  ELSE IF IsNaN(x) \/ IsNaN(y) THEN NaN
                  ELSE Rat(x[1] * y[2] - y[1] * x[2], x[2] * y[2]) :
                  x \in {a}, y \in {b}} : TRUE

FMul(a, b) ==
    CHOOSE r \in {IF IsNull(x) \/ IsNull(y) THEN Null
                  ELSE IF IsNaN(x) \/ IsNaN(y) THEN NaN
                  ELSE Rat(x[1] * y[1], x[2] * y[2]) :
                  x \in {a}, y \in {b}} : TRUE

\* x / y; a number over zero is an infinity or NaN, kept as NaN (not a number)
FDiv(a, b) ==
    CHOOSE r \in {IF IsNull(x) \/ IsNull(y) THEN Null
                  ELSE IF IsNaN(x) \/ IsNaN(y) THEN NaN
                  ELSE IF y[1] = 0 THEN NaN
                  ELSE Rat(x[1] * y[2], x[2] * y[1]) :
                  x \in {a}, y \in {b}} : TRUE

FInt(i) == <<i, 1>>

\* a < b on numbers
FLess(a, b) == a[1] * b[2] < b[1] * a[2]

\* polars cumsum, a scan: a null stays null and leaves the running sum as it
\* is, a NaN poisons what follows
RECURSIVE CumSumScan(_, _, _, _)
CumSumScan(s, k, acc, out) ==
    IF k > Len(s) THEN out
    ELSE IF IsNull(s[k]) THEN CumSumScan(s, k + 1, acc, Append(out, Null))
    ELSE CHOOSE r \in {CumSumScan(s, k + 1, t, Append(out, t)) : t \in {FAdd(acc, s[k])}} : TRUE

cumsum(s) == CHOOSE r \in {CumSumScan(v, 1, Zero, <<>>) : v \in {s}} : TRUE

\* polars slice(offset, length) on a list, 0-based offset, clipped to the list
slice(s, offset, length) ==
    LET last == IF offset + length > Len(s) THEN Len(s) ELSE offset + length
    IN  IF last <= offset THEN <<>> ELSE [k \in 1..(last - offset) |-> s[offset + k]]

(***************************************************************************)
(* Panels for the autocorrelation engines                                  *)
(***************************************************************************)
AcfEntities == {"A", "B"}

\* what pl.corr(x, x.shift(i)) can return when the shifted series overlaps x
CorrVals == {<<-1, 2>>, <<1, 3>>, NaN}

\* One entity of a panel: its length n and, for each lag i, the value of
\* pl.corr(x, x.shift(i), ddof=i); a lag i >= n leaves no overlapping pair
\* and the correlation is null.
EntitySeries(lags) ==
    UNION {{[n |-> n, corr |-> [i \in 1..lags |-> IF i >= n THEN Null ELSE f[i]]] :
                f \in [1..(IF n - 1 < lags THEN n - 1 ELSE lags) -> CorrVals]} :
           n \in 1..MaxLen}

AcfPanels(lags) == [AcfEntities -> EntitySeries(lags)]

\* alpha values: 0.05, and 0 and 3 outside the open interval (0,1)
Alphas == {<<1, 20>>, <<0, 1>>, <<3, 1>>}

ValidAlpha(alpha) == FLess(Zero, alpha) /\ FLess(alpha, One)

(***************************************************************************)
(* Results                                                                 *)
(***************************************************************************)
NoCall == [fn |-> "none"]
NoResult == [kind |-> "none", error |-> "", table |-> <<>>]
Raise(name) == [kind |-> "error", error |-> name, table |-> <<>>]
Table(t) == [kind |-> "table", error |-> "", table |-> t]

(***************************************************************************)
(* ACF engine                                                              *)
(***************************************************************************)
\* scipy norm.ppf(q): finite inside (0,1), infinite at 0 and 1, NaN outside
norm_ppf(q) ==
    IF FLess(Zero, q) /\ FLess(q, One) THEN [kind |-> "finite", q |-> q]
    ELSE IF q = Zero THEN [kind |-> "neginf", q |-> q]
    ELSE IF q = One THEN [kind |-> "inf", q |-> q]
    ELSE [kind |-> "nan", q |-> q]

\* the list [acorr_0, acorr_1 .. acorr_max_lags] of one entity
acf_formula(x, max_lags) ==
    [k \in 1..(max_lags + 1) |-> IF k = 1 THEN One ELSE x.corr[k - 1]]

\* an interval coef * sqrt(rad); coef is the ppf or the literal of interval_0
Interval(coef, rad) == [coef |-> coef, rad |-> rad]

LitCoef == [kind |-> "lit", q |-> Zero]

\* pl.lit(0.0).alias("interval_0")
Interval0 == Interval(LitCoef, Zero)

\* var = 1 + 2 * cumsum(acf^2), interval = ppf * sqrt((1 / length) * var)
acf_confint_formula(acf_list, length, ppf) ==
    CHOOSE r \in
        {[k \in 1..Len(cs) |->
             Interval(ppf, FMul(FDiv(One, FInt(length)), FAdd(One, FMul(FInt(2), cs[k]))))] :
         cs \in {cumsum([k \in 1..Len(acf_list) |-> FMul(acf_list[k], acf_list[k])])}} : TRUE

\* Faulty variant of acf_intervals: the Bartlett formula for every lag, lag 0 included
acf_intervals_all_formula(acf_list, length, ppf, max_lags) ==
    slice(acf_confint_formula(acf_list, length, ppf), 0, max_lags + 1)

\* The interval list of one entity, concat_list over the columns whose
\* names start with "interval": interval_0, interval_1 (the column is taken
\* to carry the alias the code gives it), then the formula sliced with
\* .slice(1, max_lags - 1).
acf_intervals(acf_list, length, ppf, max_lags) ==
    <<Interval0, Interval(ppf, FDiv(One, FInt(length)))>>
        \o slice(acf_confint_formula(acf_list, length, ppf), 1, max_lags - 1)

\* acf - interval (sign -1) or acf + interval (sign 1), element by element
confint(acf_list, intervals, sign) ==
    [k \in 1..Len(acf_list) |->
        [acf |-> acf_list[k], sign |-> sign, interval |-> intervals[k]]]

\* One entity's row.  explode(["acf", "interval"]) needs the two lists to
\* have one length; ok tells whether they do.
acf_row(x, max_lags, ppf) ==
    CHOOSE r \in
        {IF Len(a) # Len(iv)
         THEN [ok |-> FALSE, acf |-> a, confint_lower |-> <<>>, confint_upper |-> <<>>]
         ELSE [ok |-> TRUE, acf |-> a,
               confint_lower |-> confint(a, iv, -1) \o <<>>,
               confint_upper |-> confint(a, iv, 1) \o <<>>] :
         a \in {acf_formula(x, max_lags) \o <<>>},
         iv \in {acf_intervals(acf_formula(x, max_lags) \o <<>>, x.n, ppf, max_lags)}} : TRUE

\* acf(X, max_lags, alpha).  When some row cannot be exploded the query
\* fails inside polars (with max_lags < 1 the lists always differ).
acf(X, max_lags, alpha) ==
    CHOOSE r \in
        {IF \E e \in DOMAIN X : ~rows[e].ok
         THEN Raise("PolarsError")
         ELSE Table([e \in DOMAIN X |->
                 [acf |-> rows[e].acf,
                  confint_lower |-> rows[e].confint_lower,
                  confint_upper |-> rows[e].confint_upper]]) :
         rows \in {[e \in DOMAIN X |->
                      acf_row(X[e], max_lags, norm_ppf(FSub(One, FDiv(alpha, FInt(2)))))]}} : TRUE

Call_acf ==
    /\ call = NoCall
    /\ \E max_lags \in 0..MaxLags, alpha \in Alphas :
         \E X \in AcfPanels(max_lags) :
            /\ call' = [fn |-> "acf", X |-> X, max_lags |-> max_lags, alpha |-> alpha]
            /\ result' = acf(X, max_lags, alpha)

(***************************************************************************)
(* Ljung-Box engine                                                        *)
(***************************************************************************)
\* Faulty variant of _acf_sqr_ratio: divisors zipped from range(0, max_lags), n - k + 1
_acf_sqr_ratio_shifted(x, max_lags) ==
    [k \in 1..max_lags |-> FDiv(FMul(x.corr[k], x.corr[k]), FInt(x.n - k + 1))]

\* acorr_k ** 2 / (n - k) for k = 1 .. max_lags.  Where n - k <= 0 the
\* correlation is null and so is the ratio, whatever the divisor.
_acf_sqr_ratio(x, max_lags) ==
    [k \in 1..max_lags |-> FDiv(FMul(x.corr[k], x.corr[k]), FInt(x.n - k))]

\* Faulty variant of _qstat_ljung_box: the cumulative sum left out
_qstat_ljung_box_no_cumsum(acf_list, length) ==
    [k \in 1..Len(acf_list) |-> FMul(FInt(length * (length + 2)), acf_list[k])]

\* Faulty variant of _qstat_ljung_box: missing ratios filled with zero before the sum
_qstat_ljung_box_fill_null(acf_list, length) ==
    CHOOSE r \in
        {[k \in 1..Len(cs) |-> FMul(FInt(length * (length + 2)), cs[k])] :
         cs \in {cumsum([k \in 1..Len(acf_list) |->
                    IF IsNull(acf_list[k]) THEN Zero ELSE acf_list[k]])}} : TRUE

\* length * (length + 2) * acf.cumsum()
_qstat_ljung_box(acf_list, length) ==
    CHOOSE r \in
        {[k \in 1..Len(cs) |-> FMul(FInt(length * (length + 2)), cs[k])] :
         cs \in {cumsum(acf_list)}} : TRUE

\* ljung_box_test(X, max_lags).  With max_lags < 1 no column starts with
\* "acorr_" and concat_list has nothing to concatenate: polars fails.
ljung_box_test(X, max_lags) ==
    IF max_lags < 1 THEN Raise("PolarsError")
    ELSE Table([e \in DOMAIN X |->
            [qstats |-> _qstat_ljung_box(_acf_sqr_ratio(X[e], max_lags), X[e].n)]])

Call_ljung_box_test ==
    /\ call = NoCall
    /\ \E max_lags \in 0..MaxLags :
         \E X \in AcfPanels(max_lags) :
            /\ call' = [fn |-> "ljung_box_test", X |-> X, max_lags |-> max_lags]
            /\ result' = ljung_box_test(X, max_lags)

(***************************************************************************)
(* Normality engine                                                        *)
(***************************************************************************)
\* scipy normaltest needs at least 8 observations (its skewness test)
MinNormalitySamples == 8

NormalityLengths == {MinNormalitySamples - 1, MinNormalitySamples, MinNormalitySamples + 1}

\* the statistic normaltest computes from an entity's values
NormalityStats == {<<1, 2>>, <<5, 1>>}

\* one entity: its length n and the statistic k2 of its values
NormalityPanels == [AcfEntities -> [n : NormalityLengths, k2 : NormalityStats]]

\* Below the minimum normaltest raises ValueError (scipy before 1.14) or
\* returns NaN with a warning (later releases).
ShortSampleOutcomes == {"raise", "nan"}

normaltest(x, short) ==
    IF x.n >= MinNormalitySamples THEN [raised |-> FALSE, statistic |-> x.k2]
    ELSE IF short = "raise" THEN [raised |-> TRUE, statistic |-> NaN]
    ELSE [raised |-> FALSE, statistic |-> NaN]

\* normality_test(X): the lambda is applied group by group; an exception
\* it raises is not caught and ends the whole aggregation.
normality_test(X, short) ==
    IF \E e \in DOMAIN X : normaltest(X[e], short).raised
    THEN Raise("ValueError")
    ELSE Table([e \in DOMAIN X |-> [statistic |-> normaltest(X[e], short).statistic]])

Call_normality_test ==
    /\ call = NoCall
    /\ \E X \in NormalityPanels, short \in ShortSampleOutcomes :
         /\ call' = [fn |-> "normality_test", X |-> X]
         /\ result' = normality_test(X, short)

(***************************************************************************)
(* Ranking engine                                                          *)
(***************************************************************************)
Entities == {"A", "B", "C"}

\* the value series of an entity, in time order
RankSeries == {<<1>>, <<5>>, <<1, 5>>, <<5, 1, 3>>}

\* a panel with columns (entity_col, time_col, target_col)
RankPanels == [Entities -> RankSeries]

\* names the value column can have
TargetCols == {"y", "mean", "median", "std"}

SummaryStats == {"mean", "median", "std", "cv"}

\* the keys of SORT_BY_TO_METRIC
MetricNames ==
    {"mae", "mape", "mase", "mse", "overforecast", "rmse", "rmsse", "smape", "underforecast"}

\* the names the model passes as sort_by to the forecast ranking
ForecastSortNames == SummaryStats \cup {"smape", "mase", "bogus"}

RECURSIVE SeqSum(_, _)
SeqSum(s, k) == IF k = 0 THEN 0 ELSE SeqSum(s, k - 1) + s[k]

\* pl.mean
mean(s) == Rat(SeqSum(s, Len(s)), Len(s))

\* the k-th smallest value of s
Kth(s, k) ==
    CHOOSE v \in {s[i] : i \in 1..Len(s)} :
        /\ Cardinality({i \in 1..Len(s) : s[i] < v}) < k
        /\ Cardinality({i \in 1..Len(s) : s[i] <= v}) >= k

\* pl.median
median(s) ==
    IF Len(s) % 2 = 1 THEN FInt(Kth(s, (Len(s) + 1) \div 2))
    ELSE Rat(Kth(s, Len(s) \div 2) + Kth(s, Len(s) \div 2 + 1), 2)

\* sample variance (ddof = 1): sum((x - mean)^2) / (n - 1), null for n = 1
variance(s) ==
    IF Len(s) < 2 THEN Null
    ELSE Rat(Len(s) * SeqSum([k \in 1..Len(s) |-> s[k] * s[k]], Len(s))
                - SeqSum(s, Len(s)) * SeqSum(s, Len(s)),
             Len(s) * (Len(s) - 1))

\* A ranked value v^(1/root): root = 2 is a square root kept symbolic.
Value(v, root) == [v |-> v, root |-> root]

\* getattr(pl, sort_by)(target_col) on one entity, for the functions polars has
stat(sort_by, s) ==
    IF sort_by = "mean" THEN Value(mean(s), 1)
    ELSE IF sort_by = "median" THEN Value(median(s), 1)
    ELSE Value(variance(s), 2)

\* the sequences that hold every element of S once
Orders(S) ==
    {p \in [1..Cardinality(S) -> S] : \A i, j \in 1..Cardinality(S) : i # j => p[i] # p[j]}

\* DataFrame.sort: the rows of t (entity -> value) in the order of their
\* values; groupby leaves the groups in no fixed order, so ties come out in
\* any order, and nulls come together at one end.
sort(t, descending) ==
    {[k \in 1..Len(p) |-> [entity |-> p[k], value |-> t[p[k]]]] :
        p \in {q \in Orders(DOMAIN t) :
                /\ \A i, j \in 1..Len(q) :
                      (i < j /\ IsNum(t[q[i]].v) /\ IsNum(t[q[j]].v)) =>
                          IF descending THEN ~FLess(t[q[i]].v, t[q[j]].v)
                          ELSE ~FLess(t[q[j]].v, t[q[i]].v)
                /\ \/ \A i, j \in 1..Len(q) : (i < j /\ IsNull(t[q[j]].v)) => IsNull(t[q[i]].v)
                   \/ \A i, j \in 1..Len(q) : (i < j /\ IsNull(t[q[i]].v)) => IsNull(t[q[j]].v)}}

\* _rank_entities_by_stat: polars has no function cv; the aggregate keeps
\* the name of the value column, and sort(by=sort_by) needs a column of
\* that name.  The set of tables the call can return, or the error.
_rank_entities_by_stat(y_true, target_col, sort_by, descending) ==
    IF sort_by = "cv" THEN {Raise("AttributeError")}
    ELSE IF sort_by # target_col THEN {Raise("ColumnNotFoundError")}
    ELSE {Table(rows) : rows \in sort([e \in DOMAIN y_true |-> stat(sort_by, y_true[e])],
                                      descending)}

\* _rank_entities_by_score: SORT_BY_TO_METRIC(y_true) is a dict, and
\* calling it with (sort_by) raises TypeError before any metric runs
_rank_entities_by_score(y_true, y_pred, sort_by, descending) ==
    {Raise("TypeError")}

\* _rank_entities
_rank_entities(y_pred, y_true, target_col, sort_by, descending) ==
    IF sort_by \in {"mean", "median", "std", "cv"}
    THEN _rank_entities_by_stat(y_true, target_col, sort_by, descending)
    ELSE _rank_entities_by_score(y_true, y_pred, sort_by, descending)

\* the parameters of _rank_entities, all required
rank_entities_params == {"y_pred", "y_true", "sort_by", "descending"}

\* rank_forecasts calls _rank_entities with the keywords y, y_pred, sort_by
\* and descending; a keyword that is no parameter raises TypeError.
rank_forecasts(y_pred, y_true, target_col, descending, sort_by) ==
    LET kwargs == [y |-> y_true, y_pred |-> y_pred, sort_by |-> sort_by,
                   descending |-> descending]
    IN  IF DOMAIN kwargs # rank_entities_params THEN {Raise("TypeError")}
        ELSE _rank_entities(kwargs.y_pred, kwargs.y_true, target_col,
                           kwargs.sort_by, kwargs.descending)

\* the forecast panel of a call: the last observed value of each entity
NaiveForecasts(y_true) ==
    {[e \in DOMAIN y_true |-> <<y_true[e][Len(y_true[e])]>>]}

Call_rank_entities ==
    /\ call = NoCall
    /\ \E y_true \in RankPanels, target_col \in TargetCols,
          sort_by \in ForecastSortNames, descending \in BOOLEAN :
         \E y_pred \in NaiveForecasts(y_true) :
            /\ call' = [fn |-> "_rank_entities", y_pred |-> y_pred, y_true |-> y_true,
                        target_col |-> target_col, sort_by |-> sort_by,
                        descending |-> descending]
            /\ result' \in _rank_entities(y_pred, y_true, target_col, sort_by, descending)

Call_rank_forecasts ==
    /\ call = NoCall
    /\ \E y_true \in RankPanels, target_col \in TargetCols,
          sort_by \in ForecastSortNames, descending \in BOOLEAN :
         \E y_pred \in NaiveForecasts(y_true) :
            /\ call' = [fn |-> "rank_forecasts", y_pred |-> y_pred, y_true |-> y_true,
                        target_col |-> target_col, sort_by |-> sort_by,
                        descending |-> descending]
            /\ result' \in rank_forecasts(y_pred, y_true, target_col, descending, sort_by)

\* the residual series of an entity, in time order
ResidSeries == {<<-5>>, <<1>>, <<-1, 5>>, <<3>>}

ResidPanels == [Entities -> ResidSeries]

ResidualNames == {"bias", "abs_bias", "normality", "autocor_lb", "autocor_bg"}

\* the names the model passes as sort_by to the residual ranking
ResidualSortNames == ResidualNames \cup {"bogus"}

FAbs(v) == IF IsNum(v) /\ v[1] < 0 THEN <<-v[1], v[2]>> ELSE v

\* rank_residuals: sort_by_to_expr has the keys bias, abs_bias and
\* normality; any other name raises KeyError.  The normality expression
\* applies normality_test to one entity's Series, which has no columns
\* attribute.  max_lags and alpha are not read.
rank_residuals(y_resids, sort_by) ==
    IF sort_by \notin {"bias", "abs_bias", "normality"} THEN {Raise("KeyError")}
    ELSE IF sort_by = "normality" THEN {Raise("AttributeError")}
    ELSE {Table(rows) :
            rows \in sort([e \in DOMAIN y_resids |-> Value(FAbs(mean(y_resids[e])), 1)], FALSE)}

Call_rank_residuals ==
    /\ call = NoCall
    /\ \E y_resids \in ResidPanels, sort_by \in ResidualSortNames :
         /\ call' = [fn |-> "rank_residuals", y_resids |-> y_resids, sort_by |-> sort_by]
         /\ result' \in rank_residuals(y_resids, sort_by)

(***************************************************************************)
(* Forecast value added                                                    *)
(***************************************************************************)
FvaEntities == {"A", "B"}

FvaTruePanels == [FvaEntities -> RankSeries]

\* a forecast panel: a flat forecast for some of the entities
ForecastValues == {1, 5}

FvaPredPanels == UNION {[S -> ForecastValues] : S \in SUBSET FvaEntities}

\* y_pred_bench: None, or a forecast panel
BenchChoices ==
    {[given |-> FALSE, panel |-> <<>>]} \cup {[given |-> TRUE, panel |-> P] : P \in FvaPredPanels}

\* scoring: None (smape is used) or another metric
ScoringChoices == {"None", "mae"}

RECURSIVE FSum(_, _)
FSum(s, k) == IF k = 0 THEN Zero ELSE FAdd(FSum(s, k - 1), s[k])

\* The accuracy metrics, (y_true, y_pred) -> one score per entity of both
\* panels: mae is the mean absolute error, smape the mean of
\* |y - f| / ((|y| + |f|) / 2).
metric_score(name, y, f) ==
    LET err == [t \in 1..Len(y) |->
                   IF name = "mae" THEN FInt(Abs(y[t] - f))
                   ELSE Rat(2 * Abs(y[t] - f), Abs(y[t]) + Abs(f))]
    IN  FDiv(FSum(err, Len(y)), FInt(Len(y)))

metric(name, y_true, y_pred) ==
    [e \in DOMAIN y_true \cap DOMAIN y_pred |-> metric_score(name, y_true[e], y_pred[e])]

\* Faulty variant of uplift: the subtraction the other way round
uplift_reversed(score, bench_score) == FSub(score, bench_score)

\* pl.col(f"{metric_name}_bench") - pl.col(metric_name)
uplift(score, bench_score) == FSub(bench_score, score)

\* uplift > 0, null when uplift is null
has_uplift(u) == IF IsNull(u) THEN "null" ELSE IF IsNum(u) /\ u[1] > 0 THEN "true" ELSE "false"

\* rank_fva.  With y_pred_bench = None the benchmark becomes the dict {},
\* which the metric cannot score.  Otherwise the scores are left-joined
\* with the benchmark scores (a missing benchmark score is null) and the
\* rows are sorted by uplift.
rank_fva(y_true, y_pred, y_pred_bench, scoring, descending) ==
    LET name == IF scoring = "None" THEN "smape" ELSE scoring
        scores == metric(name, y_true, y_pred)
        scores_bench == metric(name, y_true, y_pred_bench.panel)
        joined == [e \in DOMAIN scores |->
                      Value(uplift(scores[e],
                                   IF e \in DOMAIN scores_bench THEN scores_bench[e] ELSE Null), 1)]
    IN  IF ~y_pred_bench.given THEN {Raise("MetricError")}
        ELSE {Table([k \in 1..Len(rows) |->
                        [entity |-> rows[k].entity,
                         uplift |-> rows[k].value.v,
                         has_uplift |-> has_uplift(rows[k].value.v)]]) :
                 rows \in sort(joined, descending)}

Call_rank_fva ==
    /\ call = NoCall
    /\ \E y_true \in FvaTruePanels, y_pred \in FvaPredPanels, y_pred_bench \in BenchChoices,
          scoring \in ScoringChoices, descending \in BOOLEAN :
         /\ call' = [fn |-> "rank_fva", y_true |-> y_true, y_pred |-> y_pred,
                     y_pred_bench |-> y_pred_bench, scoring |-> scoring,
                     descending |-> descending]
         /\ result' \in rank_fva(y_true, y_pred, y_pred_bench, scoring, descending)

Return ==
    /\ call # NoCall
    /\ call' = NoCall
    /\ result' = NoResult

Init ==
    /\ call = NoCall
    /\ result = NoResult

Next ==
    \/ Call_acf
    \/ Call_ljung_box_test
    \/ Call_normality_test
    \/ Call_rank_entities
    \/ Call_rank_residuals
    \/ Call_rank_forecasts
    \/ Call_rank_fva
    \/ Return

Spec == Init /\ [][Next]_vars

(***************************************************************************)
(* Properties of the autocorrelation engines                               *)
(***************************************************************************)
IsAcfCall == call.fn = "acf"
IsLjungBoxCall == call.fn = "ljung_box_test"

AllNumeric(x, max_lags) == \A i \in 1..max_lags : IsNum(x.corr[i])

\* sum over j = 1 .. k of acf[j]^2
RECURSIVE SumSquares(_, _)
SumSquares(x, k) ==
    IF k = 0 THEN Zero ELSE FAdd(SumSquares(x, k - 1), FMul(x.corr[k], x.corr[k]))

\* Bartlett: var_acf[k] = 1 + 2 * (sum over j = 1 .. k-1 of acf[j]^2)
BartlettVar(x, k) == FAdd(One, FMul(FInt(2), SumSquares(x, k - 1)))

\* sum over i = 1 .. k of acf[i]^2 / (n - i)
RECURSIVE SumRatios(_, _)
SumRatios(x, k) ==
    IF k = 0 THEN Zero
    ELSE FAdd(SumRatios(x, k - 1), FDiv(FMul(x.corr[k], x.corr[k]), FInt(x.n - k)))

\* the value coef * sqrt(rad) is zero
IntervalIsZero(iv) == iv.rad = Zero /\ iv.coef.kind \in {"lit", "finite"}

\* the bound acf -/+ interval equals the number r
ConfintEquals(c, r) == c.acf = r /\ IntervalIsZero(c.interval)

\* C1: for every acf call with max_lags >= 1, every entity and every lag
\* k in 1..max_lags, interval[k] = z(1 - alpha/2) * sqrt(var_acf[k] / n)
\* with var_acf[k] = 1 + 2 * sum_{j=1..k-1} acf[j]^2, the lag-0 term not
\* in the sum.  Stated for the entities whose correlations are all numbers.
C1_BartlettInterval ==
    (IsAcfCall /\ call.max_lags >= 1 /\ ValidAlpha(call.alpha) /\ result.kind = "table") =>
        \A e \in DOMAIN call.X :
            AllNumeric(call.X[e], call.max_lags) =>
                \A k \in 1..call.max_lags :
                    result.table[e].confint_lower[k + 1].interval =
                        Interval(norm_ppf(FSub(One, FDiv(call.alpha, FInt(2)))),
                                 FDiv(BartlettVar(call.X[e], k), FInt(call.X[e].n)))

\* C2: for every ljung_box_test call with max_lags >= 1 and every entity
\* with n > max_lags, Q[k] = n*(n+2) * sum_{i=1..k} acf[i]^2 / (n - i) at
\* every lag depth k in 1..max_lags.
C2_QStatistic ==
    (IsLjungBoxCall /\ call.max_lags >= 1) =>
        /\ result.kind = "table"
        /\ \A e \in DOMAIN call.X :
              call.X[e].n > call.max_lags =>
                  \A k \in 1..call.max_lags :
                      result.table[e].qstats[k] =
                          FMul(FInt(call.X[e].n * (call.X[e].n + 2)), SumRatios(call.X[e], k))

C2_Witness ==
    /\ IsLjungBoxCall /\ call.max_lags >= 2 /\ result.kind = "table"
    /\ \E e \in DOMAIN call.X :
          /\ call.X[e].n > call.max_lags
          /\ AllNumeric(call.X[e], call.max_lags)
          /\ FLess(Zero, result.table[e].qstats[call.max_lags])

\* C5: for every acf call with max_lags >= 1 and every entity, acf,
\* confint_lower and confint_upper have max_lags + 1 values, acf[0] = 1.0
\* and confint_lower[0] = confint_upper[0] = 1.0.
C5_LagZero ==
    (IsAcfCall /\ call.max_lags >= 1) =>
        /\ result.kind = "table"
        /\ \A e \in DOMAIN call.X :
              /\ Len(result.table[e].acf) = call.max_lags + 1
              /\ Len(result.table[e].confint_lower) = call.max_lags + 1
              /\ Len(result.table[e].confint_upper) = call.max_lags + 1
              /\ result.table[e].acf[1] = One
              /\ ConfintEquals(result.table[e].confint_lower[1], One)
              /\ ConfintEquals(result.table[e].confint_upper[1], One)

C5_Witness ==
    /\ IsAcfCall /\ call.max_lags >= 2 /\ ValidAlpha(call.alpha)
    /\ result.kind = "table"
    /\ \E e \in DOMAIN call.X :
          /\ AllNumeric(call.X[e], call.max_lags)
          /\ ~IntervalIsZero(result.table[e].confint_lower[2].interval)

\* C7: acf or ljung_box_test called with max_lags < 1, or acf called with
\* alpha outside (0,1), fails (InvalidParameter) and returns no table.
\* Stated for the outcome alone: the call ends in an error, whatever the
\* error is called.
C7_FailFast ==
    (/\ call.fn \in {"acf", "ljung_box_test"}
     /\ \/ call.max_lags < 1
        \/ IsAcfCall /\ ~ValidAlpha(call.alpha)) =>
        result.kind = "error"

\* C9: acf and ljung_box_test called with max_lags >= 1 do not fail when
\* an entity has n <= max_lags: every entity keeps its full length
\* (max_lags + 1 for acf, max_lags for Q), every lag i >= n holds a
\* missing or NaN value, and an entity with n > max_lags has no missing
\* value.
C9_ShortSeries ==
    (call.fn \in {"acf", "ljung_box_test"} /\ call.max_lags >= 1) =>
        /\ result.kind = "table"
        /\ \A e \in DOMAIN call.X :
              IF IsAcfCall
              THEN /\ Len(result.table[e].acf) = call.max_lags + 1
                   /\ \A i \in 1..call.max_lags :
                         /\ i >= call.X[e].n =>
                               /\ ~IsNum(result.table[e].acf[i + 1])
                               /\ ~IsNum(result.table[e].confint_lower[i + 1].acf)
                               /\ ~IsNum(result.table[e].confint_upper[i + 1].acf)
                         /\ call.X[e].n > call.max_lags =>
                               ~IsNull(result.table[e].acf[i + 1])
              ELSE /\ Len(result.table[e].qstats) = call.max_lags
                   /\ \A i \in 1..call.max_lags :
                         /\ i >= call.X[e].n => ~IsNum(result.table[e].qstats[i])
                         /\ call.X[e].n > call.max_lags =>
                               ~IsNull(result.table[e].qstats[i])

C9_Witness ==
    /\ IsLjungBoxCall /\ call.max_lags >= 2 /\ result.kind = "table"
    /\ \E e, o \in DOMAIN call.X :
          /\ call.X[e].n <= call.max_lags
          /\ call.X[e].n >= 2
          /\ IsNum(result.table[e].qstats[1])
          /\ IsNull(result.table[e].qstats[call.max_lags])
          /\ call.X[o].n > call.max_lags
          /\ IsNum(result.table[o].qstats[call.max_lags])

\* C10: for every ljung_box_test call with max_lags >= 1 and every entity,
\* the Q sequence has max_lags values and is non-decreasing over its
\* defined values.
C10_Monotone ==
    (IsLjungBoxCall /\ call.max_lags >= 1) =>
        /\ result.kind = "table"
        /\ \A e \in DOMAIN call.X :
              /\ Len(result.table[e].qstats) = call.max_lags
              /\ \A j, k \in 1..call.max_lags :
                    (j < k /\ IsNum(result.table[e].qstats[j])
                           /\ IsNum(result.table[e].qstats[k])) =>
                        ~FLess(result.table[e].qstats[k], result.table[e].qstats[j])

C10_Witness ==
    /\ IsLjungBoxCall /\ call.max_lags >= 2 /\ result.kind = "table"
    /\ \E e \in DOMAIN call.X :
          /\ IsNum(result.table[e].qstats[1])
          /\ IsNum(result.table[e].qstats[2])
          /\ FLess(result.table[e].qstats[1], result.table[e].qstats[2])

(***************************************************************************)
(* Properties of the normality and ranking engines                         *)
(***************************************************************************)
\* a <= b on numbers
FLeq(a, b) == ~FLess(b, a)

\* C3: rank_forecasts(y_pred, y_true, descending, sort_by="mean") returns
\* one row per entity of y_true, in ascending order of the per-entity mean
\* (descending when descending = TRUE); means {A:5, B:1, C:3} give
\* [B, C, A].
C3_RankByMean ==
    (call.fn = "rank_forecasts" /\ call.sort_by = "mean") =>
        /\ result.kind = "table"
        /\ Len(result.table) = Cardinality(DOMAIN call.y_true)
        /\ {result.table[k].entity : k \in 1..Len(result.table)} = DOMAIN call.y_true
        /\ \A i, j \in 1..Len(result.table) :
              i < j =>
                  IF call.descending
                  THEN FLeq(mean(call.y_true[result.table[j].entity]),
                            mean(call.y_true[result.table[i].entity]))
                  ELSE FLeq(mean(call.y_true[result.table[i].entity]),
                            mean(call.y_true[result.table[j].entity]))
        /\ (/\ call.y_true = [e \in Entities |->
                                 IF e = "A" THEN <<5>> ELSE IF e = "B" THEN <<1>> ELSE <<1, 5>>]
            /\ ~call.descending) =>
               [k \in 1..3 |-> result.table[k].entity] = <<"B", "C", "A">>

\* the metric a rank_fva call scores with
FvaMetric == IF call.scoring = "None" THEN "smape" ELSE call.scoring

\* the entities a rank_fva call scores in both forecast panels
ScoredInBoth == DOMAIN call.y_true \cap DOMAIN call.y_pred \cap DOMAIN call.y_pred_bench.panel

\* C4: for every rank_fva call with a benchmark panel and every entity
\* scored in both panels, the entity's row has uplift = bench_score - score
\* and has_uplift = (uplift > 0); when y_pred_bench is y_pred, every row
\* has uplift = 0 and has_uplift = False.
C4_Uplift ==
    (call.fn = "rank_fva" /\ call.y_pred_bench.given) =>
        /\ result.kind = "table"
        /\ \A e \in ScoredInBoth :
              \E k \in 1..Len(result.table) :
                  /\ result.table[k].entity = e
                  /\ result.table[k].uplift =
                         FSub(metric_score(FvaMetric, call.y_true[e], call.y_pred_bench.panel[e]),
                              metric_score(FvaMetric, call.y_true[e], call.y_pred[e]))
                  /\ result.table[k].has_uplift =
                         IF FLess(Zero, result.table[k].uplift) THEN "true" ELSE "false"
        /\ call.y_pred_bench.panel = call.y_pred =>
              \A k \in 1..Len(result.table) :
                  /\ result.table[k].uplift = Zero
                  /\ result.table[k].has_uplift = "false"

C4_Witness ==
    /\ call.fn = "rank_fva" /\ call.y_pred_bench.given /\ result.kind = "table"
    /\ ScoredInBoth = FvaEntities
    /\ \E j, k \in 1..Len(result.table) :
          /\ result.table[j].has_uplift = "true"
          /\ result.table[k].uplift = Zero
          /\ call.y_pred_bench.panel[result.table[k].entity] = call.y_pred[result.table[k].entity]

\* C6: every summary-statistic name and every metric name given to
\* rank_forecasts, and every residual-diagnostic name given to
\* rank_residuals, returns a ranked table; every other name fails
\* (UnknownSortCriterion).  Stated for the outcome alone: a name outside
\* the families ends in an error, whatever the error is called.
C6_Dispatch ==
    /\ call.fn = "rank_forecasts" =>
          IF call.sort_by \in SummaryStats \cup MetricNames
          THEN result.kind = "table"
          ELSE result.kind = "error"
    /\ call.fn = "rank_residuals" =>
          IF call.sort_by \in ResidualNames
          THEN result.kind = "table"
          ELSE result.kind = "error"

\* C8: normality_test(X) with an entity below the minimum sample size
\* still returns a table with a row for every entity: a missing statistic
\* for the short entity and, for every other entity, the statistic of its
\* own values.
C8_PerEntity ==
    (call.fn = "normality_test"
        /\ \E e \in DOMAIN call.X : call.X[e].n < MinNormalitySamples) =>
        /\ result.kind = "table"
        /\ \A e \in DOMAIN call.X :
              IF call.X[e].n < MinNormalitySamples
              THEN ~IsNum(result.table[e].statistic)
              ELSE result.table[e].statistic = call.X[e].k2

=============================================================================
